---- MODULE Spec2Model ----
(***************************************************************************)
(* ERASE (Explicit Retention And Selective Erasure): the two-node scoring  *)
(* and thresholding graph of erase/erase.py and the ConversationMemory of  *)
(* erase/memory.py built on it.                                            *)
(*                                                                         *)
(* Scores and thresholds are floats in [0,1] in the source; here they are  *)
(* tenths (0.5 is 5), which keeps every comparison the code makes.         *)
(* One call is in flight at a time (the code is synchronous); pc is the    *)
(* graph node the call in flight is about to run.  calls holds the calls   *)
(* that a thread pool runs at once on one ERASE object, and scorer the     *)
(* BatchScorer of tests/niah_stress_test.py.                               *)
(***************************************************************************)
EXTENDS Integers, Sequences, FiniteSets, TLC

VARIABLES
    config,      \* the ADict handed to ERASE / ConversationMemory
    history,     \* ConversationMemory._history
    file,        \* the JSON file save() writes and load() reads
    clock,       \* last reading of datetime.now()
    pc,          \* "idle", or the graph node about to run, or "END"
    op,          \* the operation in flight, or the last one completed
    state,       \* the ERASEState of the graph run
    ret,         \* what the operation returned or raised
    llm,         \* the Scoring Capability: its calls, last outcome and result within op
    ctx,         \* locals of get_context at its return
    calls,       \* invoke / score_all calls made at once on one ERASE object
    scorer       \* the BatchScorer of the binary-flag tests and its last call

vars == <<config, history, file, clock, pc, op, state, ret, llm, ctx,
          calls, scorer>>

-----------------------------------------------------------------------------
(* Bounds of the model *)

MaxChunks == 2      \* units in one scoring batch
MaxHistory == 2     \* messages in the log
MaxTime == 1        \* clock readings 0..MaxTime
MaxChars == 3       \* max_chars arguments 0..MaxChars

-----------------------------------------------------------------------------
(* Values *)

None == "<None>"

\* config.py: the three profiles of the scope
default == [model |-> "gpt-4o-mini", threshold |-> [retention |-> 5, erasure |-> 5]]

strict == [model |-> "gpt-4o-mini", threshold |-> [retention |-> 7, erasure |-> 5]]

lenient == [model |-> "gpt-4o-mini", threshold |-> [retention |-> 3, erasure |-> 9]]

Profiles == {default, strict, lenient}

\* configs with a threshold outside [0, 1]: retention 1.5, erasure -0.1
OutOfRange ==
    {[default EXCEPT !.threshold.retention = 15],
     [default EXCEPT !.threshold.erasure = -1]}

\* schemas.py MemoryChunk: what the structured output of the LLM may hold.
\* PipelineChunks varies ids and both scores around the profiles' thresholds.
PipelineChunks ==
    [id : {"", "c1"}, content : {"a"}, retention_score : {5, 7},
     erasure_score : {0, 5, 9}, category : {None}]

\* ContextChunks varies content lengths and retention.
ContextChunks ==
    [id : {"c1"}, content : {"", "a", "bb"}, retention_score : {5, 7},
     erasure_score : {0}, category : {None}]

\* SystemChunks: a small set, for runs of all operations together.
SystemChunks ==
    [id : {"c1"}, content : {"a"}, retention_score : {5},
     erasure_score : {0, 5}, category : {None}]

\* uuid.uuid4() prefixes
Tokens == {"u1", "u2"}

Texts == {"t"}

Queries == {None, "q"}

SeqsUpTo(S, n) == UNION {[1..k -> S] : k \in 0..n}

\* The outcomes of structured_llm.invoke(prompt): a ScoredChunks object, None
\* (no parsable structured output), a parser/validation exception, or a
\* failure of the upstream call.
LLMOutcomes == {"ok", "none", "parse_error", "unavailable"}

InitialState(text, query) ==
    [input_text |-> text, query |-> query, chunks |-> <<>>,
     committed_memory |-> <<>>, iteration |-> 0]

NoState == InitialState("", None)

NoRet == [status |-> "none", list |-> <<>>, text |-> "", error |-> ""]

Running == [status |-> "running", list |-> <<>>, text |-> "", error |-> ""]

ReturnList(l) == [status |-> "returned", list |-> l, text |-> "", error |-> ""]

ReturnText(s) == [status |-> "returned", list |-> <<>>, text |-> s, error |-> ""]

Raise(e) == [status |-> "raised", list |-> <<>>, text |-> "", error |-> e]

NoCtx == [chunks |-> <<>>, order |-> <<>>, parts |-> <<>>, total_chars |-> 0]

-----------------------------------------------------------------------------
(* ERASE: the graph START -> chunk_and_score -> apply_threshold -> END *)

\* erase.py 117-119: a unit lacking an id gets a generated one
AssignIds(chunks, toks) ==
    [i \in 1..Len(chunks) |->
        IF chunks[i].id = "" THEN [chunks[i] EXCEPT !.id = toks[i]] ELSE chunks[i]]

KeepErasureInclusive(chunk, retention_threshold, erasure_threshold) ==
    /\ chunk.retention_score >= retention_threshold
    /\ chunk.erasure_score <= erasure_threshold

KeepRetentionSwapped(chunk, retention_threshold, erasure_threshold) ==
    /\ chunk.retention_score <= retention_threshold
    /\ chunk.erasure_score < erasure_threshold

\* erase.py 130-133
Keep(chunk, retention_threshold, erasure_threshold) ==
    /\ chunk.retention_score >= retention_threshold
    /\ chunk.erasure_score < erasure_threshold

RECURSIVE CommitLoopPrepend(_, _, _, _)
CommitLoopPrepend(chunks, committed, rt, et) ==
    IF chunks = <<>> THEN committed
    ELSE CommitLoopPrepend(Tail(chunks),
            IF Keep(Head(chunks), rt, et)
            THEN <<Head(chunks)>> \o committed ELSE committed,
            rt, et)

\* erase.py 128-135: the loop over state['chunks']
RECURSIVE CommitLoop(_, _, _, _)
CommitLoop(chunks, committed, rt, et) ==
    IF chunks = <<>> THEN committed
    ELSE CommitLoop(Tail(chunks),
            IF Keep(Head(chunks), rt, et)
            THEN Append(committed, Head(chunks)) ELSE committed,
            rt, et)

NoCall == ret.status # "running"

\* the Scoring Capability before the call of an operation
NotCalled == [calls |-> 0, last |-> "not_called", result |-> <<>>]

\* erase.py 115: the call made, its outcome, and the result.chunks it yielded
Called(outcome, chunks) ==
    [calls |-> llm.calls + 1, last |-> outcome, result |-> chunks]

StartGraphOnOldState(name, text, query, max_chars) ==
    /\ op' = [name |-> name, max_chars |-> max_chars]
    /\ state' = [state EXCEPT !.input_text = text, !.query = query]
    /\ pc' = "chunk_and_score"
    /\ ret' = Running
    /\ llm' = NotCalled
    /\ ctx' = NoCtx

\* erase.py 149-156: the call builds its initial_state and runs the graph
StartGraph(name, text, query, max_chars) ==
    /\ op' = [name |-> name, max_chars |-> max_chars]
    /\ state' = InitialState(text, query)
    /\ pc' = "chunk_and_score"
    /\ ret' = Running
    /\ llm' = NotCalled
    /\ ctx' = NoCtx

\* an operation that runs no graph: the locals of the call before are gone
StartPlain(name, max_chars) ==
    /\ op' = [name |-> name, max_chars |-> max_chars]
    /\ state' = NoState
    /\ llm' = NotCalled
    /\ ctx' = NoCtx
    /\ pc' = pc

\* erase.py 142-156: invoke up to graph.invoke
Invoke(text, query) ==
    /\ NoCall
    /\ StartGraph("invoke", text, query, 0)
    /\ UNCHANGED <<calls, scorer, config, history, file, clock>>

\* erase.py 159-176: score_all up to graph.invoke
ScoreAll(text, query) ==
    /\ NoCall
    /\ StartGraph("score_all", text, query, 0)
    /\ UNCHANGED <<calls, scorer, config, history, file, clock>>

PropagateAsEmptyResult(e) ==
    /\ ret' = ReturnList(<<>>)
    /\ pc' = "idle"
    /\ state' = state

PropagateAndRetry(e) ==
    /\ ret' = ret
    /\ pc' = pc
    /\ state' = state

\* erase.py 115-121 and 156, memory.py 62 and 71: no try/except anywhere, so an
\* exception of the node ends the graph run and reaches the caller as it is
Propagate(e) ==
    /\ ret' = Raise(e)
    /\ pc' = "idle"
    /\ state' = state

\* erase.py 55-121: the node chunk_and_score. The LLM call either yields a
\* batch, or yields None (result.chunks then raises AttributeError), or
\* raises.
ChunkAndScore(Universe) ==
    /\ pc = "chunk_and_score"
    /\ \E outcome \in LLMOutcomes :
        /\ \/ /\ outcome = "ok"
              /\ \E batch \in SeqsUpTo(Universe, MaxChunks) :
                 \E toks \in [1..Len(batch) -> Tokens] :
                    /\ llm' = Called(outcome, batch)
                    /\ state' = [state EXCEPT !.chunks = AssignIds(batch, toks)]
              /\ pc' = "apply_threshold"
              /\ ret' = ret
           \/ /\ outcome = "none"
              /\ llm' = Called(outcome, <<>>)
              /\ Propagate("AttributeError")
           \/ /\ outcome = "parse_error"
              /\ llm' = Called(outcome, <<>>)
              /\ Propagate("OutputParserException")
           \/ /\ outcome = "unavailable"
              /\ llm' = Called(outcome, <<>>)
              /\ Propagate("UpstreamUnavailable")
    /\ UNCHANGED <<calls, scorer, config, history, file, clock, op, ctx>>

ApplyThresholdSkippedByScoreAll ==
    /\ pc = "apply_threshold"
    /\ state' = IF op.name = "score_all" THEN state
                ELSE [state EXCEPT
                        !.committed_memory =
                            CommitLoop(state.chunks, <<>>,
                                config.threshold.retention, config.threshold.erasure),
                        !.iteration = state.iteration + 1]
    /\ pc' = "END"
    /\ UNCHANGED <<calls, scorer, config, history, file, clock, op, ret, llm, ctx>>

\* erase.py 123-140: the node apply_threshold
ApplyThreshold ==
    /\ pc = "apply_threshold"
    /\ state' = [state EXCEPT
            !.committed_memory =
                CommitLoop(state.chunks, <<>>,
                           config.threshold.retention, config.threshold.erasure),
            !.iteration = state.iteration + 1]
    /\ pc' = "END"
    /\ UNCHANGED <<calls, scorer, config, history, file, clock, op, ret, llm, ctx>>

InvokeResult == state.committed_memory

ScoreAllResultCommitted == state.committed_memory

\* erase.py 177
ScoreAllResult == state.chunks

\* erase.py 157
InvokeReturn ==
    /\ pc = "END"
    /\ op.name = "invoke"
    /\ ret' = ReturnList(InvokeResult)
    /\ pc' = "idle"
    /\ UNCHANGED <<calls, scorer, config, history, file, clock, op, state, llm, ctx>>

\* erase.py 177
ScoreAllReturn ==
    /\ pc = "END"
    /\ op.name = "score_all"
    /\ ret' = ReturnList(ScoreAllResult)
    /\ pc' = "idle"
    /\ UNCHANGED <<calls, scorer, config, history, file, clock, op, state, llm, ctx>>

-----------------------------------------------------------------------------
(* ConversationMemory *)

\* schemas.py Message.role
ValidRoles == {"user", "assistant", "system"}

\* roles handed to add(): that of add_user, and one the schema rejects
AddRoles == {"user", "tool"}

MsgContents == {"hi"}

\* contents of one line and of two
LogContents == {"hi", "a\nb"}

RECURSIVE Join(_)
\* '\n'.join(parts)
Join(parts) ==
    IF parts = <<>> THEN ""
    ELSE IF Len(parts) = 1 THEN parts[1]
    ELSE parts[1] \o "\n" \o Join(Tail(parts))

\* A timestamp t counts half minutes; strftime('%Y-%m-%d %H:%M') keeps the
\* minute only.
TimeStr(t) == ToString(t \div 2)

\* memory.py 42-48
HistoryToText(h) ==
    Join([i \in 1..Len(h) |->
            "[" \o TimeStr(h[i].timestamp) \o "] " \o h[i].role \o ": " \o h[i].content])

IsoFormatMinutes(t) == <<t \div 2>>

\* datetime.isoformat(): the sub-minute part is written only when it is not 0
IsoFormat(t) == IF t % 2 = 0 THEN <<t \div 2>> ELSE <<t \div 2, t % 2>>

\* what datetime.fromisoformat() accepts
ValidIso(s) == Len(s) \in {1, 2}

\* datetime.fromisoformat()
FromIsoFormat(s) == IF Len(s) = 1 THEN s[1] * 2 ELSE s[1] * 2 + s[2]

\* The file at the path handed to save() and load(). writer and saved record
\* where its content comes from: the log save() wrote it from, when save()
\* wrote it.
NoFile == [exists |-> FALSE, data |-> <<>>, writer |-> "none", saved |-> <<>>]

AddAtFront(role, content) ==
    /\ NoCall
    /\ Len(history) < MaxHistory
    /\ StartPlain("add", 0)
    /\ \E t \in clock..MaxTime :
        /\ clock' = t
        /\ IF role \in ValidRoles
           THEN LET msg == [role |-> role, content |-> content, timestamp |-> t,
                            retention_score |-> None, erasure_score |-> None]
                IN /\ history' = <<msg>> \o history
                   /\ ret' = ReturnList(<<msg>>)
           ELSE /\ history' = history
                /\ ret' = Raise("ValidationError")
    /\ UNCHANGED <<calls, scorer, config, file>>

\* memory.py 30-34. Message(...) validates the role before the append.
\* datetime.now() is read as a clock that does not run backwards.
Add(role, content) ==
    /\ NoCall
    /\ Len(history) < MaxHistory
    /\ StartPlain("add", 0)
    /\ \E t \in clock..MaxTime :
        /\ clock' = t
        /\ IF role \in ValidRoles
           THEN LET msg == [role |-> role, content |-> content, timestamp |-> t,
                            retention_score |-> None, erasure_score |-> None]
                IN /\ history' = Append(history, msg)
                   /\ ret' = ReturnList(<<msg>>)
           ELSE /\ history' = history
                /\ ret' = Raise("ValidationError")
    /\ UNCHANGED <<calls, scorer, config, file>>

\* memory.py 87-89
Clear ==
    /\ NoCall
    /\ StartPlain("clear", 0)
    /\ history' = <<>>
    /\ ret' = ReturnList(<<>>)
    /\ UNCHANGED <<calls, scorer, config, file, clock>>

\* memory.py 91-96
Save ==
    /\ NoCall
    /\ StartPlain("save", 0)
    /\ file' = [exists |-> TRUE,
                data |-> [i \in 1..Len(history) |->
                            [history[i] EXCEPT !.timestamp = IsoFormat(@)]],
                writer |-> "save",
                saved |-> history]
    /\ ret' = ReturnList(<<>>)
    /\ UNCHANGED <<calls, scorer, config, history, clock>>

\* memory.py 102-104: the loop over the records of the file, which appends to
\* the log record by record and ends at the first record that
\* fromisoformat or Message(**d) rejects
RECURSIVE LoadLoop(_, _)
LoadLoop(data, loaded) ==
    IF data = <<>> THEN [history |-> loaded, error |-> ""]
    ELSE LET d == Head(data) IN
         IF ~ValidIso(d.timestamp)
         THEN [history |-> loaded, error |-> "ValueError"]
         ELSE IF d.role \notin ValidRoles
         THEN [history |-> loaded, error |-> "ValidationError"]
         ELSE LoadLoop(Tail(data),
                Append(loaded, [d EXCEPT !.timestamp = FromIsoFormat(@)]))

\* memory.py 98-104. read_text raises before the log is touched when there
\* is no file; the log is emptied (line 101) before the loop over the records.
Load ==
    /\ NoCall
    /\ StartPlain("load", 0)
    /\ IF file.exists
       THEN LET loaded == LoadLoop(file.data, <<>>) IN
            /\ history' = loaded.history
            /\ ret' = IF loaded.error = "" THEN ReturnList(<<>>)
                      ELSE Raise(loaded.error)
       ELSE /\ history' = history
            /\ ret' = Raise("FileNotFoundError")
    /\ UNCHANGED <<calls, scorer, config, file, clock>>

\* A record of a JSON file that save() did not write
Record(role, timestamp) ==
    [role |-> role, content |-> "hi", timestamp |-> timestamp,
     retention_score |-> None, erasure_score |-> None]

\* Files load() may be pointed at: two well-formed records with the later
\* timestamp first; a well-formed record followed by one of a role the schema
\* rejects; a well-formed record followed by one whose timestamp is not in
\* ISO format.
ExternalFiles ==
    {<<Record("user", <<0, 1>>), Record("user", <<0>>)>>,
     <<Record("user", <<0>>), Record("tool", <<0>>)>>,
     <<Record("user", <<0>>), Record("user", <<>>)>>}

\* memory.py 98-100: the file at the path of load() is any file of the file
\* system; here it is written by something other than save()
WriteFile(data) ==
    /\ file' = [exists |-> TRUE, data |-> data, writer |-> "other",
                saved |-> <<>>]
    /\ UNCHANGED <<calls, scorer, config, history, clock, pc, op, state, ret, llm, ctx>>

RetrieveAlwaysInvokes(query) ==
    /\ NoCall
    /\ StartGraph("retrieve", HistoryToText(history), query, 0)
    /\ UNCHANGED <<calls, scorer, config, history, file, clock>>

\* memory.py 50-62: retrieve up to the call of self._erase
Retrieve(query) ==
    /\ NoCall
    /\ IF history = <<>>
       THEN /\ StartPlain("retrieve", 0)
            /\ ret' = ReturnList(<<>>)
       ELSE StartGraph("retrieve", HistoryToText(history), query, 0)
    /\ UNCHANGED <<calls, scorer, config, history, file, clock>>

RetrieveReturnErasingLog ==
    /\ pc = "END"
    /\ op.name = "retrieve"
    /\ ret' = ReturnList(InvokeResult)
    /\ pc' = "idle"
    /\ history' = IF InvokeResult = <<>> THEN <<>> ELSE history
    /\ UNCHANGED <<calls, scorer, config, file, clock, op, state, llm, ctx>>

\* memory.py 62 with erase.py 157, 180
RetrieveReturn ==
    /\ pc = "END"
    /\ op.name = "retrieve"
    /\ ret' = ReturnList(InvokeResult)
    /\ pc' = "idle"
    /\ UNCHANGED <<calls, scorer, config, history, file, clock, op, state, llm, ctx>>

InsertDescTiesFirst(order, i, chunks) ==
    LET p == Cardinality({j \in 1..Len(order) :
                chunks[order[j]].retention_score > chunks[i].retention_score})
    IN SubSeq(order, 1, p) \o <<i>> \o SubSeq(order, p + 1, Len(order))

\* Unit i takes its place after every unit already ranked whose retention is
\* not lower: a stable descending order, as sorted(..., reverse=True) gives.
InsertDesc(order, i, chunks) ==
    LET p == Cardinality({j \in 1..Len(order) :
                chunks[order[j]].retention_score >= chunks[i].retention_score})
    IN SubSeq(order, 1, p) \o <<i>> \o SubSeq(order, p + 1, Len(order))

RECURSIVE SortDesc(_, _, _)
SortDesc(chunks, i, order) ==
    IF i > Len(chunks) THEN order
    ELSE SortDesc(chunks, i + 1, InsertDesc(order, i, chunks))

\* memory.py 79: sorted(chunks, key=lambda c: c.retention_score, reverse=True),
\* as the positions of the units in chunks
SortedOrder(chunks) == SortDesc(chunks, 1, <<>>)

FitsBelow(total_chars, content, max_chars) ==
    total_chars + Len(content) < max_chars

\* memory.py 80: the negation of the break condition
Fits(total_chars, content, max_chars) ==
    ~(total_chars + Len(content) > max_chars)

RECURSIVE AccumulateSkipping(_, _, _, _)
AccumulateSkipping(ranked, parts, total_chars, max_chars) ==
    IF ranked = <<>> THEN [parts |-> parts, total_chars |-> total_chars]
    ELSE IF ~Fits(total_chars, Head(ranked).content, max_chars)
    THEN AccumulateSkipping(Tail(ranked), parts, total_chars, max_chars)
    ELSE AccumulateSkipping(Tail(ranked), Append(parts, Head(ranked).content),
                    total_chars + Len(Head(ranked).content), max_chars)

RECURSIVE Accumulate(_, _, _, _)
\* memory.py 76-83: the loop over the ranked units, left at the first unit
\* that does not fit
Accumulate(ranked, parts, total_chars, max_chars) ==
    IF ranked = <<>> THEN [parts |-> parts, total_chars |-> total_chars]
    ELSE IF ~Fits(total_chars, Head(ranked).content, max_chars)
    THEN [parts |-> parts, total_chars |-> total_chars]
    ELSE Accumulate(Tail(ranked), Append(parts, Head(ranked).content),
                    total_chars + Len(Head(ranked).content), max_chars)

\* memory.py 64-71: get_context up to the call of self._erase
GetContext(query, max_chars) ==
    /\ NoCall
    /\ IF history = <<>>
       THEN /\ StartPlain("get_context", max_chars)
            /\ ret' = ReturnText("")
       ELSE StartGraph("get_context", HistoryToText(history), query, max_chars)
    /\ UNCHANGED <<calls, scorer, config, history, file, clock>>

\* memory.py 71-85: get_context from the return of retrieve
GetContextReturn ==
    /\ pc = "END"
    /\ op.name = "get_context"
    /\ LET chunks == InvokeResult
           order == SortedOrder(chunks)
           ranked == [k \in 1..Len(order) |-> chunks[order[k]]]
           acc == Accumulate(ranked, <<>>, 0, op.max_chars)
       IN IF chunks = <<>>
          THEN /\ ret' = ReturnText("")
               /\ ctx' = NoCtx
          ELSE /\ ret' = ReturnText(Join(acc.parts))
               /\ ctx' = [chunks |-> chunks, order |-> order,
                          parts |-> acc.parts, total_chars |-> acc.total_chars]
    /\ pc' = "idle"
    /\ UNCHANGED <<calls, scorer, config, history, file, clock, op, state, llm>>

-----------------------------------------------------------------------------
(* BatchScorer: the binary-flag variant of the tests *)

\* niah_stress_test.py 19-24: SentenceScore without its content, which
\* filter_batch does not read. The id "1" is the label "[1]" of the prompt
\* (line 95), which is not a key of id_to_original.
SentenceScores ==
    [id : {"s1", "s2", "1"}, is_relevant : BOOLEAN, should_exclude : BOOLEAN]

Sentences == {"x", "y"}

\* niah_stress_test.py 88-90: a scorer that has filtered no batch yet
BatchScorerInit(use_erasure) ==
    [use_erasure |-> use_erasure, status |-> "none", sentences |-> <<>>,
     scores |-> <<>>, kept_ids |-> <<>>, result |-> <<>>]

\* niah_stress_test.py 88-90, between two calls of filter_batch
NewBatchScorer(use_erasure) ==
    /\ scorer.status # "running"
    /\ scorer' = BatchScorerInit(use_erasure)
    /\ UNCHANGED <<calls, config, history, file, clock, pc, op, state, ret,
                   llm, ctx>>

KeptWithoutRelevance(s, use_erasure) ==
    IF use_erasure THEN ~s.should_exclude ELSE s.is_relevant

\* niah_stress_test.py 112-117: the condition of the list comprehension
Kept(s, use_erasure) ==
    IF use_erasure THEN s.is_relevant /\ ~s.should_exclude ELSE s.is_relevant

\* niah_stress_test.py 114, 117: kept_ids
KeptIds(scores, use_erasure) ==
    LET Test(s) == Kept(s, use_erasure)
        kept == SelectSeq(scores, Test)
    IN [k \in 1..Len(kept) |-> kept[k].id]

\* niah_stress_test.py 110: the keys of id_to_original
IdOfSentence(i) == "s" \o ToString(i)

IsSentenceId(cid, sentences) ==
    \E i \in 1..Len(sentences) : IdOfSentence(i) = cid

\* niah_stress_test.py 119: the sentences of the kept ids that are keys of
\* id_to_original
Originals(kept_ids, sentences) ==
    LET Known(cid) == IsSentenceId(cid, sentences)
        known == SelectSeq(kept_ids, Known)
    IN [k \in 1..Len(known) |->
            sentences[CHOOSE i \in 1..Len(sentences) :
                        IdOfSentence(i) = known[k]]]

\* niah_stress_test.py 105-107, 92-101: filter_batch up to the LLM call of
\* score_batch
FilterBatch(sentences) ==
    /\ scorer.status # "running"
    /\ scorer' = [scorer EXCEPT
            !.status = "running",
            !.sentences = sentences,
            !.scores = <<>>,
            !.kept_ids = <<>>,
            !.result = <<>>]
    /\ UNCHANGED <<calls, config, history, file, clock, pc, op, state, ret,
                   llm, ctx>>

\* niah_stress_test.py 102-119: the LLM call yields the scores of the batch
\* and filter_batch returns, or it yields None and result.chunks raises.
FilterBatchReturn ==
    /\ scorer.status = "running"
    /\ \/ \E scores \in SeqsUpTo(SentenceScores, MaxChunks) :
            scorer' = [scorer EXCEPT
                !.status = "returned",
                !.scores = scores,
                !.kept_ids = KeptIds(scores, scorer.use_erasure),
                !.result = Originals(KeptIds(scores, scorer.use_erasure),
                                     scorer.sentences)]
       \/ scorer' = [scorer EXCEPT !.status = "raised"]
    /\ UNCHANGED <<calls, config, history, file, clock, pc, op, state, ret,
                   llm, ctx>>

-----------------------------------------------------------------------------
(* invoke and score_all called at once on one ERASE object *)

\* niah_stress_test.py 122-133: the calls a thread pool runs at once
CallIds == {"A", "B"}

CallTexts == {"ta", "tb"}

\* A call: its kind and text argument, the node it is about to run, its
\* ERASEState, and what it returned or raised. scored is the batch its own
\* scoring step produced; overlap tells that another call was in flight
\* during one of its steps.
IdleCall ==
    [kind |-> "none", text |-> "", pc |-> "idle",
     state |-> InitialState("", None), scored |-> <<>>, ret |-> NoRet,
     overlap |-> FALSE]

OthersInFlight(c) ==
    \E o \in CallIds \ {c} : calls[o].ret.status = "running"

\* erase.py 149-156, 166-175: the call makes its own initial_state and hands
\* it to the graph
CallStart(c, kind, text) ==
    /\ calls[c].ret.status # "running"
    /\ calls' = [calls EXCEPT ![c] =
            [kind |-> kind, text |-> text, pc |-> "chunk_and_score",
             state |-> InitialState(text, "q"), scored |-> <<>>,
             ret |-> Running, overlap |-> OthersInFlight(c)]]
    /\ UNCHANGED <<scorer, config, history, file, clock, pc, op, state, ret,
                   llm, ctx>>

\* erase.py 55-121 run by call c
CallChunkAndScore(c) ==
    /\ calls[c].pc = "chunk_and_score"
    /\ \E outcome \in LLMOutcomes :
        \/ /\ outcome = "ok"
           /\ \E batch \in SeqsUpTo(SystemChunks, MaxChunks) :
              \E toks \in [1..Len(batch) -> Tokens] :
                calls' = [calls EXCEPT
                    ![c].state.chunks = AssignIds(batch, toks),
                    ![c].scored = AssignIds(batch, toks),
                    ![c].pc = "apply_threshold",
                    ![c].overlap = @ \/ OthersInFlight(c)]
        \/ /\ outcome # "ok"
           /\ calls' = [calls EXCEPT
                    ![c].ret = Raise(CASE outcome = "none" -> "AttributeError"
                                     [] outcome = "parse_error" ->
                                            "OutputParserException"
                                     [] OTHER -> "UpstreamUnavailable"),
                    ![c].pc = "idle",
                    ![c].overlap = @ \/ OthersInFlight(c)]
    /\ UNCHANGED <<scorer, config, history, file, clock, pc, op, state, ret,
                   llm, ctx>>

CallChunksShared(c) ==
    LET o == CHOOSE o \in CallIds : o # c
    IN IF calls[o].state.chunks # <<>> THEN calls[o].state.chunks
       ELSE calls[c].state.chunks

\* erase.py 128: state['chunks'] is the state the graph passes to the node,
\* which is the call's own
CallChunks(c) == calls[c].state.chunks

\* erase.py 123-140 run by call c
CallApplyThreshold(c) ==
    /\ calls[c].pc = "apply_threshold"
    /\ calls' = [calls EXCEPT
            ![c].state.committed_memory =
                CommitLoop(CallChunks(c), <<>>,
                           config.threshold.retention, config.threshold.erasure),
            ![c].state.iteration = @ + 1,
            ![c].pc = "END",
            ![c].overlap = @ \/ OthersInFlight(c)]
    /\ UNCHANGED <<scorer, config, history, file, clock, pc, op, state, ret,
                   llm, ctx>>

\* erase.py 157, 176
CallReturn(c) ==
    /\ calls[c].pc = "END"
    /\ calls' = [calls EXCEPT
            ![c].ret = ReturnList(IF calls[c].kind = "invoke"
                                  THEN calls[c].state.committed_memory
                                  ELSE calls[c].state.chunks),
            ![c].pc = "idle",
            ![c].overlap = @ \/ OthersInFlight(c)]
    /\ UNCHANGED <<scorer, config, history, file, clock, pc, op, state, ret,
                   llm, ctx>>

-----------------------------------------------------------------------------
(* Specifications *)

\* erase.py 28-32, memory.py 21-24: the objects after construction, whatever
\* the config
Constructed ==
    /\ history = <<>>
    /\ file = NoFile
    /\ clock = 0
    /\ pc = "idle"
    /\ op = [name |-> "none", max_chars |-> 0]
    /\ state = InitialState("", None)
    /\ ret = NoRet
    /\ llm = NotCalled
    /\ ctx = NoCtx
    /\ calls = [c \in CallIds |-> IdleCall]
    /\ scorer = BatchScorerInit(TRUE)

Init ==
    /\ config \in Profiles
    /\ Constructed

Next ==
    \/ \E text \in Texts, query \in Queries : Invoke(text, query)
    \/ \E text \in Texts, query \in Queries : ScoreAll(text, query)
    \/ ChunkAndScore(PipelineChunks)
    \/ ApplyThreshold
    \/ InvokeReturn
    \/ ScoreAllReturn

Spec == Init /\ [][Next]_vars

\* one invoke after another, for the Threshold Policy as a function of the
\* batch and the thresholds
NextPolicy ==
    \/ \E text \in Texts : Invoke(text, None)
    \/ ChunkAndScore(PipelineChunks)
    \/ ApplyThreshold
    \/ InvokeReturn

SpecPolicy == Init /\ [][NextPolicy]_vars

\* the pipeline built on any config the caller hands over: ERASE.__init__ and
\* the scope of config.py take the thresholds as they come
InitAnyConfig ==
    /\ config \in Profiles \cup OutOfRange
    /\ Constructed

SpecConfig == InitAnyConfig /\ [][Next]_vars

\* get_context over batches of varied content and retention
NextContext ==
    \/ \E content \in MsgContents : Add("user", content)
    \/ \E max_chars \in 0..MaxChars : GetContext("q", max_chars)
    \/ ChunkAndScore(ContextChunks)
    \/ ApplyThreshold
    \/ GetContextReturn

SpecContext == Init /\ [][NextContext]_vars

\* every operation of the pipeline and of the memory, over small batches
NextSystem ==
    \/ \E text \in Texts : Invoke(text, "q")
    \/ \E text \in Texts : ScoreAll(text, "q")
    \/ \E role \in AddRoles, content \in MsgContents : Add(role, content)
    \/ Clear
    \/ Save
    \/ Load
    \/ Retrieve("q")
    \/ \E max_chars \in {0, MaxChars} : GetContext("q", max_chars)
    \/ ChunkAndScore(SystemChunks)
    \/ ApplyThreshold
    \/ InvokeReturn
    \/ ScoreAllReturn
    \/ RetrieveReturn
    \/ GetContextReturn

SpecSystem == Init /\ [][NextSystem]_vars

\* the conversation log and its file, the file being written by save() or
\* by something else
NextLog ==
    \/ \E role \in AddRoles, content \in MsgContents : Add(role, content)
    \/ Clear
    \/ Save
    \/ Load
    \/ \E data \in ExternalFiles : WriteFile(data)

SpecLog == Init /\ [][NextLog]_vars

\* the log as add builds it and as retrieve renders it
NextRender ==
    \/ \E role \in AddRoles, content \in LogContents : Add(role, content)
    \/ Clear
    \/ Retrieve("q")
    \/ ChunkAndScore(SystemChunks)
    \/ ApplyThreshold
    \/ RetrieveReturn

SpecRender == Init /\ [][NextRender]_vars

\* two call sites on one ERASE object, their steps interleaved in any order
NextConcurrent ==
    \E c \in CallIds :
        \/ \E text \in CallTexts : CallStart(c, "invoke", text)
        \/ \E text \in CallTexts : CallStart(c, "score_all", text)
        \/ CallChunkAndScore(c)
        \/ CallApplyThreshold(c)
        \/ CallReturn(c)

SpecConcurrent == Init /\ [][NextConcurrent]_vars

\* the BatchScorer of the tests, built with or without erasure
NextBinary ==
    \/ \E use_erasure \in BOOLEAN : NewBatchScorer(use_erasure)
    \/ \E sentences \in SeqsUpTo(Sentences, MaxChunks) : FilterBatch(sentences)
    \/ FilterBatchReturn

SpecBinary == Init /\ [][NextBinary]_vars

-----------------------------------------------------------------------------
(* Properties *)

RECURSIVE IsSubseq(_, _)
\* s can be obtained from t by deleting elements
IsSubseq(s, t) ==
    IF s = <<>> THEN TRUE
    ELSE IF t = <<>> THEN FALSE
    ELSE IF Head(s) = Head(t) THEN IsSubseq(Tail(s), Tail(t))
    ELSE IsSubseq(s, Tail(t))

IdsOf(units) == {units[i].id : i \in 1..Len(units)}

\* thresholds in [0,1]: the bounds, the profiles' values
ThresholdVals == {0, 3, 5, 7, 9, 10}

GraphDone == pc = "END" \/ (ret.status = "returned" /\ op.name \in {"invoke", "score_all"})

\* C1: in the continuous-score variant the threshold step keeps a unit iff
\* retention_score >= retention_threshold and erasure_score < erasure_threshold,
\* for the configured thresholds and for every other pair of thresholds: a unit
\* at the erasure threshold is dropped, a unit at the retention threshold with
\* erasure below the threshold is kept.
C1_KeepIff ==
    GraphDone =>
        \A i \in 1..Len(state.chunks) :
            LET u == state.chunks[i] IN
            /\ (\E j \in 1..Len(state.committed_memory) : state.committed_memory[j] = u)
                <=> (/\ u.retention_score >= config.threshold.retention
                     /\ u.erasure_score < config.threshold.erasure)
            /\ \A rt \in ThresholdVals, et \in ThresholdVals :
                /\ (CommitLoop(<<u>>, <<>>, rt, et) = <<u>>)
                    <=> (u.retention_score >= rt /\ u.erasure_score < et)
                /\ (CommitLoop(<<u>>, <<>>, rt, et) = <<>>)
                    <=> ~(u.retention_score >= rt /\ u.erasure_score < et)

\* C1 witness: an invoke returned a batch holding a unit at the erasure
\* threshold with enough retention, which was dropped, and a unit at the
\* retention threshold with erasure below the threshold, which was kept.
C1_Witness ==
    /\ ret.status = "returned"
    /\ op.name = "invoke"
    /\ Len(state.chunks) = 2
    /\ state.chunks[1].erasure_score = config.threshold.erasure
    /\ state.chunks[1].retention_score > config.threshold.retention
    /\ state.chunks[2].retention_score = config.threshold.retention
    /\ state.chunks[2].erasure_score < config.threshold.erasure
    /\ ret.list = <<state.chunks[2]>>

\* C2 (as claimed): the string get_context returns, separators included, is
\* never longer than max_chars.
C2_LengthWithinMaxChars ==
    (op.name = "get_context" /\ ret.status = "returned") => Len(ret.text) <= op.max_chars

\* C3 (as claimed): get_context returns the empty string iff retrieve returned
\* no unit whose content fits within max_chars.
C3_EmptyIffNoUnitFits ==
    (op.name = "get_context" /\ ret.status = "returned") =>
        ((ret.text = "") <=>
            ~\E i \in 1..Len(state.committed_memory) :
                Len(state.committed_memory[i].content) <= op.max_chars)

\* unit i is ranked before unit j: higher retention, or equal retention and
\* earlier in the retrieved list
RankedBefore(units, i, j) ==
    \/ units[i].retention_score > units[j].retention_score
    \/ units[i].retention_score = units[j].retention_score /\ i < j

\* the unit with exactly k units ranked before it
UnitOfRank(units, k) ==
    units[CHOOSE i \in 1..Len(units) :
            Cardinality({j \in 1..Len(units) : RankedBefore(units, j, i)}) = k]

\* C3 (amended): get_context returns the empty string iff no unit is included
\* (retrieve returned none, or the top-ranked unit's content is longer than
\* max_chars), or the only unit included has empty content (the top-ranked
\* content is empty and there is no second-ranked unit or its content is
\* longer than max_chars).
C3_EmptyIffNothingIncluded ==
    (op.name = "get_context" /\ ret.status = "returned") =>
        LET units == state.committed_memory IN
        ((ret.text = "") <=>
            \/ units = <<>>
            \/ Len(UnitOfRank(units, 0).content) > op.max_chars
            \/ /\ UnitOfRank(units, 0).content = ""
               /\ \/ Len(units) = 1
                  \/ Len(UnitOfRank(units, 1).content) > op.max_chars)

\* C3 witness: two units were retrieved, the top-ranked one is too long for
\* max_chars, the other one would fit, and the context is empty.
C3_Witness ==
    /\ op.name = "get_context"
    /\ ret.status = "returned"
    /\ Len(state.committed_memory) = 2
    /\ state.committed_memory[1].retention_score < state.committed_memory[2].retention_score
    /\ Len(state.committed_memory[2].content) > op.max_chars
    /\ Len(state.committed_memory[1].content) <= op.max_chars
    /\ state.committed_memory[1].content # ""
    /\ ret.text = ""

\* C4: the contents in the get_context output are those of a prefix of the
\* retrieved units ranked by non-increasing retention_score, and units of equal
\* retention_score keep their order in the retrieved list.
C4_RankedStable ==
    (op.name = "get_context" /\ ret.status = "returned" /\ ctx.chunks # <<>>) =>
        LET n == Len(ctx.parts) IN
        /\ ctx.chunks = state.committed_memory
        /\ n <= Len(ctx.order)
        /\ \A k \in 1..n :
            /\ ctx.order[k] \in 1..Len(ctx.chunks)
            /\ ctx.parts[k] = ctx.chunks[ctx.order[k]].content
        /\ \A k \in 1..n, l \in 1..n :
            k < l =>
                /\ ctx.order[k] # ctx.order[l]
                /\ ctx.chunks[ctx.order[k]].retention_score
                    >= ctx.chunks[ctx.order[l]].retention_score
                /\ ctx.chunks[ctx.order[k]].retention_score
                    = ctx.chunks[ctx.order[l]].retention_score
                    => ctx.order[k] < ctx.order[l]
        /\ \A k \in 1..n, i \in 1..Len(ctx.chunks) :
            RankedBefore(ctx.chunks, i, ctx.order[k]) => \E l \in 1..(k - 1) : ctx.order[l] = i

\* C4 witness: two retrieved units of equal retention and different content
\* are both in the output, in retrieval order.
C4_Witness ==
    /\ op.name = "get_context"
    /\ ret.status = "returned"
    /\ Len(ctx.parts) = 2
    /\ ctx.chunks[1].retention_score = ctx.chunks[2].retention_score
    /\ ctx.chunks[1].content = "bb"
    /\ ctx.chunks[2].content = "a"
    /\ ret.text = "bb\na"

\* C5: a retrieve on an empty log returns the empty list at once and makes no
\* call of the Scoring Capability, whatever add, clear and load did before.
C5_EmptyLogNoScoring ==
    /\ [][(NoCall /\ history = <<>> /\ op'.name = "retrieve")
            => (/\ ret'.status = "returned"
                /\ ret'.list = <<>>
                /\ llm'.calls = 0
                /\ pc' = "idle")]_vars
    /\ []((op.name = "retrieve" /\ history = <<>>)
            => (llm.calls = 0 /\ ret.status = "returned" /\ ret.list = <<>>))

\* C5 witness: a retrieve returned on a log that was filled, saved and then
\* emptied.
C5_Witness ==
    /\ op.name = "retrieve"
    /\ ret.status = "returned"
    /\ history = <<>>
    /\ file.exists
    /\ file.data # <<>>

\* C6: the list invoke returns is an order-preserving subsequence of the batch
\* its scoring step produced.
C6_CommittedSubsequence ==
    (op.name = "invoke" /\ ret.status = "returned") =>
        /\ IsSubseq(ret.list, state.chunks)
        /\ ret.list = state.committed_memory

\* C6 witness: invoke returned two units of a batch, the first of them
\* different from the second.
C6_Witness ==
    /\ op.name = "invoke"
    /\ ret.status = "returned"
    /\ Len(ret.list) = 2
    /\ ret.list[1] # ret.list[2]

\* C7: for one scoring batch, score_all returns every unit of the batch, and
\* the ids it returns include the ids of the committed list invoke returns.
C7_ScoreAllSuperset ==
    /\ (op.name = "score_all" /\ ret.status = "returned") =>
        /\ ret.list = state.chunks
        /\ IdsOf(state.committed_memory) \subseteq IdsOf(ret.list)
        /\ \A i \in 1..Len(state.chunks) :
            \E j \in 1..Len(ret.list) : ret.list[j] = state.chunks[i]
    /\ (op.name = "invoke" /\ ret.status = "returned") =>
        IdsOf(ret.list) \subseteq IdsOf(state.chunks)

\* C7 witness: score_all returned a batch of two units with different ids, one
\* of which passes the Threshold Policy and one of which fails it.
C7_Witness ==
    /\ op.name = "score_all"
    /\ ret.status = "returned"
    /\ Len(ret.list) = 2
    /\ Len(state.committed_memory) = 1
    /\ ret.list[1].id # ret.list[2].id

\* C8: for a fixed batch (the one the scoring step has just produced), raising
\* retention_threshold never adds a unit to the committed list and raising
\* erasure_threshold never removes one: the list under the stricter setting is
\* a sublist of the list under the looser one.
C8_Monotonic ==
    (pc = "apply_threshold") =>
        \A lo \in ThresholdVals, hi \in ThresholdVals :
            lo < hi =>
                \A other \in ThresholdVals :
                    /\ IsSubseq(CommitLoop(state.chunks, <<>>, hi, other),
                                CommitLoop(state.chunks, <<>>, lo, other))
                    /\ Len(CommitLoop(state.chunks, <<>>, hi, other))
                        <= Len(CommitLoop(state.chunks, <<>>, lo, other))
                    /\ IsSubseq(CommitLoop(state.chunks, <<>>, other, lo),
                                CommitLoop(state.chunks, <<>>, other, hi))
                    /\ Len(CommitLoop(state.chunks, <<>>, other, lo))
                        <= Len(CommitLoop(state.chunks, <<>>, other, hi))

\* C8 witness: a batch whose committed list under the configured thresholds
\* is not empty, shrinks under the strict retention threshold and grows under
\* the lenient erasure threshold.
C8_Witness ==
    /\ GraphDone
    /\ config = default
    /\ Len(state.committed_memory) = 1
    /\ Len(CommitLoop(state.chunks, <<>>, strict.threshold.retention,
                      config.threshold.erasure)) = 0
    /\ Len(CommitLoop(state.chunks, <<>>, config.threshold.retention,
                      lenient.threshold.erasure)) = 2

\* C9 (as claimed): when the Scoring Capability returns no parsable structured
\* output or a result with no units, invoke and score_all return the empty
\* list and raise nothing.
C9_MalformedYieldsEmpty ==
    (/\ op.name \in {"invoke", "score_all"}
     /\ pc = "idle"
     /\ \/ llm.last \in {"none", "parse_error"}
        \/ llm.last = "ok" /\ state.chunks = <<>>)
        => (ret.status = "returned" /\ ret.list = <<>>)

PipelineOps == {"invoke", "score_all", "retrieve", "get_context"}

\* C10: a failure of the Scoring Capability call ends invoke, score_all and
\* retrieve with that failure and no result list, after that one call and no
\* other; an operation reports a failure only when the call failed, and
\* returns (possibly the empty list) whenever the call succeeded or was not
\* needed.
C10_FailureSurfaced ==
    /\ [][(pc = "chunk_and_score" /\ llm'.last = "unavailable")
            => (/\ ret'.status = "raised"
                /\ ret'.error = "UpstreamUnavailable"
                /\ ret'.list = <<>>
                /\ pc' = "idle"
                /\ op' = op
                /\ llm'.calls = 1)]_vars
    /\ [][(llm'.calls > llm.calls)
            => (pc = "chunk_and_score" /\ pc' # "chunk_and_score"
                /\ llm'.calls = llm.calls + 1)]_vars
    /\ [][(pc' = "chunk_and_score") => NoCall]_vars
    /\ [](llm.calls <= 1)
    /\ []((op.name \in PipelineOps /\ pc = "idle" /\ llm.last = "unavailable")
            => (ret.status = "raised" /\ ret.error = "UpstreamUnavailable"))
    /\ []((op.name \in PipelineOps /\ pc = "idle" /\ llm.last \in {"ok", "not_called"})
            => ret.status = "returned")

\* C10 witness: a retrieve on a log with messages ended with the failure of
\* the upstream call, after one call of the capability.
C10_Witness ==
    /\ op.name = "retrieve"
    /\ ret.status = "raised"
    /\ ret.error = "UpstreamUnavailable"
    /\ history # <<>>
    /\ llm.calls = 1

-----------------------------------------------------------------------------
(* Identifiers of the scored units *)

\* C11: once the scoring step of an operation has run, every unit of the batch
\* has a non-empty id, the ids of the batch are pairwise distinct, a unit the
\* capability returned with an id still has that id, and a unit whose id
\* differs from the returned one was returned without an id.
C11_IdsNonEmptyDistinctKept ==
    llm.last = "ok" =>
        /\ Len(state.chunks) = Len(llm.result)
        /\ \A i \in 1..Len(state.chunks) :
            /\ state.chunks[i].id # ""
            /\ llm.result[i].id # "" => state.chunks[i].id = llm.result[i].id
            /\ state.chunks[i].id # llm.result[i].id => llm.result[i].id = ""
        /\ \A i, j \in 1..Len(state.chunks) :
            i # j => state.chunks[i].id # state.chunks[j].id

-----------------------------------------------------------------------------
(* Validation of the thresholds *)

InRange(threshold) ==
    /\ threshold.retention \in 0..10
    /\ threshold.erasure \in 0..10

\* C12: with a retention or erasure threshold outside [0, 1] no scoring call
\* is made and the threshold step neither becomes due nor runs.
C12_OutOfRangeRejected ==
    ~InRange(config.threshold) =>
        /\ llm.calls = 0
        /\ pc \notin {"apply_threshold", "END"}
        /\ state.iteration = 0

-----------------------------------------------------------------------------
(* score_all and the threshold step *)

\* C13 as stated: a score_all call returns every scored unit, and while it is
\* in flight and after it the committed list is empty and the iteration
\* counter is not advanced: the threshold step is not run.
C13_ScoreAllSkipsThreshold ==
    op.name = "score_all" =>
        /\ state.committed_memory = <<>>
        /\ state.iteration = 0
        /\ ret.status = "returned" => ret.list = state.chunks

\* C13: a score_all call that returns has run the scoring step and then the
\* threshold step (the committed list holds exactly the units of the batch
\* that pass the Threshold Policy, in batch order, and the iteration counter
\* is 1), and it returns every unit of the scored batch, the committed list
\* being left aside.
C13_ScoreAllRunsThreshold ==
    (op.name = "score_all" /\ ret.status = "returned") =>
        /\ ret.list = state.chunks
        /\ Len(ret.list) = Len(llm.result)
        /\ state.iteration = 1
        /\ IsSubseq(state.committed_memory, state.chunks)
        /\ Len(state.committed_memory) =
              Cardinality({i \in 1..Len(state.chunks) :
                  Keep(state.chunks[i], config.threshold.retention,
                       config.threshold.erasure)})
        /\ \A j \in 1..Len(state.committed_memory) :
              Keep(state.committed_memory[j], config.threshold.retention,
                   config.threshold.erasure)

\* C13 witness: score_all returned two units, the first of which fails the
\* Threshold Policy and is absent from the committed list, after the
\* threshold step has run once.
C13_Witness ==
    /\ op.name = "score_all"
    /\ ret.status = "returned"
    /\ Len(ret.list) = 2
    /\ state.iteration = 1
    /\ state.committed_memory = <<ret.list[2]>>
    /\ ~Keep(ret.list[1], config.threshold.retention, config.threshold.erasure)

-----------------------------------------------------------------------------
(* save and load *)

\* C14: a load that reads a file written by save leaves the log equal to the
\* log that was saved: the same messages in the same order, each with its
\* role, content, timestamp (sub-minute part included) and scores; what the
\* log held before the load is gone.
C14_SaveLoadRoundTrip ==
    (op.name = "load" /\ ret.status = "returned" /\ file.writer = "save") =>
        /\ history = file.saved
        /\ Len(history) = Len(file.data)

\* C14 witness: a load returned with a log of two messages read from a saved
\* file, the second of which has a timestamp with a sub-minute part.
C14_Witness ==
    /\ op.name = "load"
    /\ ret.status = "returned"
    /\ file.writer = "save"
    /\ Len(history) = 2
    /\ history[1].timestamp = 0
    /\ history[2].timestamp = 1

-----------------------------------------------------------------------------
(* Atomicity of the mutations of the log *)

\* a step that is an operation of the memory, not a write to the file by
\* something else
MemoryOperation == <<history, op, ret, clock>>' # <<history, op, ret, clock>>

\* C15: add appends one message or, when it raises, leaves the log as it
\* was; clear leaves the log empty; a load that returns leaves the log made
\* of all the records of the file, and a load that raises leaves the log
\* exactly as it was before the call.
C15_MutationsAtomic ==
    [][MemoryOperation =>
        /\ op'.name = "add" =>
              history' = IF ret'.status = "returned"
                         THEN Append(history, ret'.list[1]) ELSE history
        /\ op'.name = "clear" => history' = <<>>
        /\ (op'.name = "load" /\ ret'.status = "returned") =>
              Len(history') = Len(file.data)
        /\ (op'.name = "load" /\ ret'.status = "raised") => history' = history
      ]_vars

-----------------------------------------------------------------------------
(* Order of the timestamps *)

\* C19: in every state the timestamps of the log are non-decreasing from the
\* first message to the last.
C19_TimestampsNonDecreasing ==
    \A i, j \in 1..Len(history) :
        i < j => history[i].timestamp <= history[j].timestamp

-----------------------------------------------------------------------------
(* Calls made at once *)

\* what a call of the given kind returns when it runs alone on the batch its
\* scoring step produced
AloneResult(kind, scored) ==
    IF kind = "invoke"
    THEN CommitLoop(scored, <<>>, config.threshold.retention,
                    config.threshold.erasure)
    ELSE scored

\* C16: whatever the interleaving of the steps of the calls, a call that has
\* returned holds its own text and its own scored batch in its state, has run
\* the threshold step once, and returns exactly what it returns when run alone
\* on that batch; and a step of one call changes nothing of another call.
C16_CallsIndependent ==
    /\ [](\A c \in CallIds :
            calls[c].ret.status = "returned" =>
                /\ calls[c].state.input_text = calls[c].text
                /\ calls[c].state.chunks = calls[c].scored
                /\ calls[c].state.iteration = 1
                /\ calls[c].ret.list =
                        AloneResult(calls[c].kind, calls[c].scored))
    /\ [][\A c \in CallIds :
            calls'[c] # calls[c] =>
                \A o \in CallIds \ {c} : calls'[o] = calls[o]]_vars

\* C16 witness: an invoke and a score_all, each of which had the other in
\* flight during its steps, have both returned, from different texts and
\* different non-empty batches, the invoke having dropped a unit.
C16_Witness ==
    /\ calls["A"].kind = "invoke"
    /\ calls["B"].kind = "score_all"
    /\ \A c \in CallIds : calls[c].ret.status = "returned" /\ calls[c].overlap
    /\ calls["A"].text # calls["B"].text
    /\ calls["A"].scored # calls["B"].scored
    /\ Len(calls["A"].scored) = 2
    /\ Len(calls["A"].ret.list) = 1
    /\ calls["B"].ret.list # <<>>

-----------------------------------------------------------------------------
(* The binary-flag variant *)

IdsOfScores(scores) == [i \in 1..Len(scores) |-> scores[i].id]

\* C17: after filter_batch, the kept ids are the ids of the scored units that
\* are flagged relevant and, when erasure is enabled, not flagged for
\* exclusion, in the order of the scores, no score being compared with a
\* threshold; the sentences returned are those the kept ids name; and for
\* the same scores what is kept with erasure enabled is among what is kept
\* with erasure disabled.
C17_BinaryKeep ==
    scorer.status = "returned" =>
        LET scores == scorer.scores
            passing == {i \in 1..Len(scores) :
                          /\ scores[i].is_relevant
                          /\ scorer.use_erasure => ~scores[i].should_exclude}
        IN /\ Len(scorer.kept_ids) = Cardinality(passing)
           /\ IsSubseq(scorer.kept_ids, IdsOfScores(scores))
           /\ \A k \in 1..Len(scorer.kept_ids) :
                \E i \in passing : scores[i].id = scorer.kept_ids[k]
           /\ \A i \in 1..Len(scores) :
                (\E k \in 1..Len(scorer.kept_ids) :
                    scorer.kept_ids[k] = scores[i].id)
                => \E j \in passing : scores[j].id = scores[i].id
           /\ Len(scorer.result) =
                Cardinality({k \in 1..Len(scorer.kept_ids) :
                    IsSentenceId(scorer.kept_ids[k], scorer.sentences)})
           /\ IsSubseq(KeptIds(scores, TRUE), KeptIds(scores, FALSE))
           /\ IsSubseq(Originals(KeptIds(scores, TRUE), scorer.sentences),
                       Originals(KeptIds(scores, FALSE), scorer.sentences))

\* C17 witness: a scorer with erasure enabled returned from a batch of two
\* sentences whose two scored units are both relevant, one of them flagged
\* for exclusion: it kept one, where a scorer with erasure disabled keeps
\* both.
C17_Witness ==
    /\ scorer.status = "returned"
    /\ scorer.use_erasure
    /\ Len(scorer.sentences) = 2
    /\ Len(scorer.scores) = 2
    /\ \A i \in 1..2 : scorer.scores[i].is_relevant
    /\ scorer.scores[1].should_exclude
    /\ ~scorer.scores[2].should_exclude
    /\ scorer.kept_ids = <<scorer.scores[2].id>>
    /\ Len(scorer.result) = 1
    /\ Len(KeptIds(scorer.scores, FALSE)) = 2

-----------------------------------------------------------------------------
(* add *)

\* the entry of a message in the rendered history
Entry(m) == "[" \o TimeStr(m.timestamp) \o "] " \o m.role \o ": " \o m.content

RECURSIVE Entries(_)
\* the entries of the messages of h, first to last, each after a line break
\* but the first
Entries(h) ==
    IF h = <<>> THEN ""
    ELSE IF Len(h) = 1 THEN Entry(h[1])
    ELSE Entries(SubSeq(h, 1, Len(h) - 1)) \o "\n" \o Entry(h[Len(h)])

-----------------------------------------------------------------------------
(* The budget of get_context *)

RECURSIVE PrefixChars(_, _, _)
\* the content length of the first k units of the ranked list
PrefixChars(chunks, order, k) ==
    IF k = 0 THEN 0
    ELSE PrefixChars(chunks, order, k - 1) + Len(chunks[order[k]].content)

\* C20: the contents get_context includes are those of the longest prefix of
\* the retention-ranked list whose accumulated content length is at most
\* max_chars: the next ranked unit, if there is one, would exceed the budget,
\* no unit after it is included, every included content is there whole, and
\* the output is empty when the first ranked content is longer than max_chars.
C20_LongestPrefixWithinBudget ==
    (op.name = "get_context" /\ ret.status = "returned" /\ ctx.chunks # <<>>) =>
        LET n == Len(ctx.parts)
            m == Len(ctx.order)
        IN /\ m = Len(state.committed_memory)
           /\ n <= m
           /\ PrefixChars(ctx.chunks, ctx.order, n) <= op.max_chars
           /\ n < m => PrefixChars(ctx.chunks, ctx.order, n + 1) > op.max_chars
           /\ \A k \in 0..m :
                PrefixChars(ctx.chunks, ctx.order, k) <= op.max_chars => k <= n
           /\ \A k \in 1..n : ctx.parts[k] = ctx.chunks[ctx.order[k]].content
           /\ ctx.total_chars = PrefixChars(ctx.chunks, ctx.order, n)
           /\ Len(ret.text) = ctx.total_chars + (IF n = 0 THEN 0 ELSE n - 1)
           /\ Len(ctx.chunks[ctx.order[1]].content) > op.max_chars
                => ret.text = ""

\* C20 witness: of two ranked units the first fills max_chars exactly and is
\* included whole; the second, which alone would fit, is left out.
C20_Witness ==
    /\ op.name = "get_context"
    /\ ret.status = "returned"
    /\ Len(ctx.order) = 2
    /\ Len(ctx.parts) = 1
    /\ ctx.total_chars = op.max_chars
    /\ ret.text = ctx.chunks[ctx.order[1]].content
    /\ ctx.chunks[ctx.order[2]].content # ""
    /\ Len(ctx.chunks[ctx.order[2]].content) <= op.max_chars

-----------------------------------------------------------------------------
(* The flow of invoke *)

\* C21: an invoke call takes its steps in one order only: the scoring step,
\* with one call of the Scoring Capability, then the threshold step, then the
\* return. Neither step runs twice, the threshold step is due only once the
\* scoring step has produced the batch it reads, and a scoring step that
\* raises ends the call at once, without a second try and without the
\* threshold step. A call that returns has run each step exactly once.
C21_TwoStepsInOrder ==
    /\ [][op'.name = "invoke" =>
            \/ /\ pc = "idle" /\ pc' = "chunk_and_score"
               /\ llm'.calls = 0 /\ state'.iteration = 0
            \/ /\ pc = "chunk_and_score" /\ pc' = "apply_threshold"
               /\ llm'.calls = 1 /\ llm'.last = "ok"
               /\ state'.iteration = 0 /\ ret'.status = "running"
            \/ /\ pc = "chunk_and_score" /\ pc' = "idle"
               /\ llm'.calls = 1 /\ llm'.last # "ok"
               /\ state' = state /\ ret'.status = "raised"
            \/ /\ pc = "apply_threshold" /\ pc' = "END"
               /\ llm' = llm /\ state'.chunks = state.chunks
               /\ state'.iteration = 1 /\ ret'.status = "running"
            \/ /\ pc = "END" /\ pc' = "idle"
               /\ llm' = llm /\ state' = state
               /\ ret'.status = "returned"]_vars
    /\ [](op.name = "invoke" =>
            /\ llm.calls <= 1
            /\ state.iteration <= 1
            /\ pc \in {"apply_threshold", "END"} =>
                /\ llm.last = "ok"
                /\ Len(state.chunks) = Len(llm.result)
            /\ ret.status = "returned" =>
                /\ llm.calls = 1
                /\ llm.last = "ok"
                /\ state.iteration = 1)

\* C21 witness: an invoke returned after one call of the Scoring Capability
\* and one run of the threshold step, which kept the second of the two units
\* of the batch and dropped the first.
C21_Witness ==
    /\ op.name = "invoke"
    /\ ret.status = "returned"
    /\ pc = "idle"
    /\ llm.calls = 1
    /\ state.iteration = 1
    /\ Len(state.chunks) = 2
    /\ ret.list = <<state.chunks[2]>>
    /\ state.chunks[1] # state.chunks[2]

-----------------------------------------------------------------------------
(* The state of an invoke *)

\* C22: an invoke starts from a state of its own, with no scored unit, no
\* committed unit and iteration 0, whatever the call before left; the
\* iteration counter changes only in the threshold step, by exactly one; and
\* an invoke that has returned has iteration 1, whether its committed list is
\* empty or not, and holds only units of the batch its own scoring step got.
C22_FreshStatePerInvoke ==
    /\ [][(op'.name = "invoke" /\ pc = "idle" /\ pc' = "chunk_and_score") =>
            /\ state'.chunks = <<>>
            /\ state'.committed_memory = <<>>
            /\ state'.iteration = 0
            /\ state'.input_text \in Texts
            /\ state'.query \in Queries]_vars
    /\ [][(op'.name = "invoke" /\ pc # "idle"
              /\ state'.iteration # state.iteration) =>
            /\ pc = "apply_threshold"
            /\ state'.iteration = state.iteration + 1]_vars
    /\ [](op.name = "invoke" /\ ret.status = "returned" =>
            /\ state.iteration = 1
            /\ ret.list = state.committed_memory
            /\ IsSubseq(state.committed_memory, state.chunks)
            /\ Len(state.chunks) = Len(llm.result)
            /\ \A i \in 1..Len(state.chunks) :
                /\ state.chunks[i].content = llm.result[i].content
                /\ state.chunks[i].retention_score =
                        llm.result[i].retention_score
                /\ state.chunks[i].erasure_score = llm.result[i].erasure_score)

\* C22 witness: an invoke returned an empty committed list from a batch of two
\* units, with iteration 1.
C22_Witness ==
    /\ op.name = "invoke"
    /\ ret.status = "returned"
    /\ Len(state.chunks) = 2
    /\ state.committed_memory = <<>>
    /\ ret.list = <<>>
    /\ state.iteration = 1

-----------------------------------------------------------------------------
(* The operations that change the log *)

\* C23: no step of a retrieve or of a get_context changes the log, whether
\* the call returns units, returns nothing or raises; a step that changes the
\* log is a step of add, clear or load; and the retention_score and
\* erasure_score of every message of the log are unset.
C23_ReadsLeaveLog ==
    /\ [][op'.name \in {"retrieve", "get_context"} => history' = history]_vars
    /\ [][history' # history => op'.name \in {"add", "clear", "load"}]_vars
    /\ [](\A i \in 1..Len(history) :
            /\ history[i].retention_score = None
            /\ history[i].erasure_score = None)

\* C23 witness: a get_context returned a non-empty context from a log of two
\* messages, which still has its two messages with their scores unset.
C23_Witness ==
    /\ op.name = "get_context"
    /\ ret.status = "returned"
    /\ ret.text # ""
    /\ Len(history) = 2
    /\ \A i \in 1..2 : history[i].retention_score = None

====
